---- MODULE Spec2Model ----
(***************************************************************************)
(* Model of train/train_DESI.py: the curriculum ladder, the annealing      *)
(* slope, the per-epoch training / validation loop with its batch cap,     *)
(* the periodic checkpoint, and the load / resume path of the entry point. *)
(*                                                                         *)
(* Four specifications share the variables: Spec is the entry point as     *)
(* written (guard, load, resume logic, the call of train), SpecTrain is    *)
(* train called with a curriculum, a schedule and an epoch count,          *)
(* SpecLadder is build_ladder on arbitrary curricula, SpecCkpt is          *)
(* checkpoint followed by load_model.                                      *)
(*                                                                         *)
(* Arrays are 0-indexed functions, as in the source.  A loss-history entry *)
(* is an exact rational <<num, den>> (den > 0, lowest terms).              *)
(***************************************************************************)
EXTENDS Integers, Sequences, FiniteSets, TLC

VARIABLES
    pc,             \* position of the process in __main__ / train
    args,           \* parsed command line: clobber, batch_number, flags
    n_encoder,      \* len(instruments) = len(models)
    train_sequence, \* the curriculum: local of __main__, argument of train
    requested,      \* the n_epoch argument of the call of train
    loaders,        \* number of batches each data loader yields
    lossval,        \* per-sample fidelity loss the model reports
    outfile,        \* content of the checkpoint file, or NoFile
    models,         \* weights and requires_grad flags of the models
    loaded,         \* loss history as returned by load_model, or None
    losses,         \* the losses argument handed to train, or None
    ladder,         \* result of build_ladder
    detailed_loss,  \* the loss history of the running driver
    epoch,          \* first epoch of this run
    n_epoch,        \* total number of epochs (length of the history)
    epoch_,         \* loop variable of the epoch loop
    which,          \* loop variable of the encoder loops
    k,              \* loop variable of the batch loops
    n_sample,       \* samples seen in the current pass
    slope,          \* annealing slope of the current epoch
    ckpts,          \* epochs of this run at whose end checkpoint was called
    lr_steps,       \* scheduler.step() calls of this run
    saved           \* round trip only: the models and history handed to save

vars == <<pc, args, n_encoder, train_sequence, loaders, lossval, outfile,
          models, loaded, losses, ladder, detailed_loss, epoch, n_epoch,
          epoch_, which, k, n_sample, slope, ckpts, saved, requested,
          lr_steps>>

inputs == <<args, n_encoder, train_sequence, loaders, lossval, saved,
            requested>>

\* an optional value is <<>> (None) or <<value>>
None == <<>>
Some(x) == <<x>>
Val(o) == o[1]

\* the file system entry of outfile before any file is written
NoFile == [isfile |-> FALSE]

(* ---------------------------- bounds ----------------------------------- *)
AnnealLen == 2        \* length of the annealing schedule
MaxFileEpochs == 2    \* epochs in a checkpoint found on disk at start
MaxBatches == 2       \* batches a loader yields: 1..MaxBatches
MaxCap == 2           \* batch caps tried: None, 0..MaxCap
StageIter == 7        \* iteration count of a curriculum stage of a run
MaxStages == 3        \* stages of a curriculum handed to build_ladder
MaxCount == 2         \* largest iteration count handed to build_ladder
WeightMod == 3        \* weights are values in 0..WeightMod-1
MaxLoss == 1          \* per-sample fidelity loss: 0..MaxLoss
MaxExtra == 1         \* epochs asked of train beyond the curriculum's sum
ShortIter == 3        \* iteration count of a stage of a staged curriculum

(* ------------------------ program constants ---------------------------- *)
n_loss == 5
CoolDown == 10
CheckpointEvery == 5

EncoderCounts == {1, 2, 3}

(* ---------------------------- rationals -------------------------------- *)
RECURSIVE GCD(_, _)
GCD(a, b) == IF b = 0 THEN a ELSE GCD(b, a % b)

Abs(x) == IF x < 0 THEN -x ELSE x

RatNorm(n, d) ==
    LET g == GCD(Abs(n), d) IN <<n \div g, d \div g>>

Rat(n) == <<n, 1>>
RatAdd(a, b) == RatNorm(a[1] * b[2] + b[1] * a[2], a[2] * b[2])
RatDivInt(a, n) == RatNorm(a[1], a[2] * n)
RatPos(a) == a[1] > 0

ZeroRow == [t \in 0..(n_loss - 1) |-> Rat(0)]

RECURSIVE RowSumUpTo(_, _)
RowSumUpTo(row, t) ==
    IF t < 0 THEN Rat(0) ELSE RatAdd(RowSumUpTo(row, t - 1), row[t])

\* np.sum(row) over the loss terms of one history row
RowSum(row) == RowSumUpTo(row, n_loss - 1)

\* np.zeros((2, n_enc, n, n_loss))
Zeros(n_enc, n) ==
    [p \in 0..1 |-> [w \in 0..(n_enc - 1) |-> [e \in 0..(n - 1) |-> ZeroRow]]]

\* number of epochs of a history array: len(h[0][0])
HLen(h) == Cardinality(DOMAIN h[0][0])

\* len() of a 0-indexed list
Len0(f) == Cardinality(DOMAIN f)

(* --------------------------- build_ladder ------------------------------ *)
RECURSIVE SumIter(_, _)
SumIter(seq, i) ==
    IF i < 0 THEN 0 ELSE SumIter(seq, i - 1) + seq[i].iteration

\* sum([item['iteration'] for item in train_sequence])
TotalIter(seq) == SumIter(seq, Len0(seq) - 1)

\* start or stop of a numpy slice on an array of length n
SliceBound(a, n) ==
    IF a < 0 THEN (IF a + n < 0 THEN 0 ELSE a + n)
    ELSE (IF a > n THEN n ELSE a)

\* faulty variant: the slice starts at 0 (n_start is not advanced)
LadderAssign_mut(lad, n_start, n_end, i) ==
    LET hi == SliceBound(n_end, Len0(lad))
    IN [j \in DOMAIN lad |-> IF j < hi THEN i ELSE lad[j]]

\* ladder[n_start:n_end] = i
LadderAssign(lad, n_start, n_end, i) ==
    LET n == Len0(lad)
        lo == SliceBound(n_start, n)
        hi == SliceBound(n_end, n)
    IN [j \in DOMAIN lad |-> IF lo <= j /\ j < hi THEN i ELSE lad[j]]

RECURSIVE LadderLoop(_, _, _, _)
LadderLoop(seq, i, n_start, lad) ==
    IF i >= Len0(seq) THEN lad
    ELSE LET n_end == n_start + seq[i].iteration
         IN LadderLoop(seq, i + 1, n_end, LadderAssign(lad, n_start, n_end, i))

\* the outcome of build_ladder: the ladder returned, or the exception
\* raised (np.zeros(n_iter) raises ValueError for a negative n_iter)
build_ladder(seq) ==
    LET n_iter == TotalIter(seq)
    IN IF n_iter < 0 THEN [raised |-> "ValueError"]
       ELSE [raised |-> "",
             ladder |-> LadderLoop(seq, 0, 0, [j \in 0..(n_iter - 1) |-> 0])]

(* ------------------------- models and weights -------------------------- *)
\* a key of a state dict is a string, given as the sequence of its characters
\* 'encoder.mlp.0.weight'
KeyEnc ==
    <<"e", "n", "c", "o", "d", "e", "r", ".", "m", "l", "p", ".", "0", ".",
    "w", "e", "i", "g", "h", "t">>
\* 'decoder.mlp.0.weight'
KeyDec ==
    <<"d", "e", "c", "o", "d", "e", "r", ".", "m", "l", "p", ".", "0", ".",
    "w", "e", "i", "g", "h", "t">>
\* the buffers of the instrument held by the encoder (lines 215-216)
\* 'encoder.instrument.wave_obs'
KeyWave ==
    <<"e", "n", "c", "o", "d", "e", "r", ".", "i", "n", "s", "t", "r", "u",
    "m", "e", "n", "t", ".", "w", "a", "v", "e", "_", "o", "b", "s">>
\* 'encoder.instrument.skyline_mask'
KeyMask ==
    <<"e", "n", "c", "o", "d", "e", "r", ".", "i", "n", "s", "t", "r", "u",
    "m", "e", "n", "t", ".", "s", "k", "y", "l", "i", "n", "e", "_", "m",
    "a", "s", "k">>
ModelKeys == {KeyEnc, KeyDec, KeyWave, KeyMask}
\* the order in which state_dict() lists the keys
KeyOrder == <<KeyWave, KeyMask, KeyEnc, KeyDec>>
\* 'encoder.mlp.mlp.0.weight'
LegacyKey ==
    <<"e", "n", "c", "o", "d", "e", "r", ".", "m", "l", "p", ".", "m", "l",
    "p", ".", "0", ".", "w", "e", "i", "g", "h", "t">>

\* an ordered dict is the sequence of its items <<key, value>>, keys distinct
Keys(items) == {items[j][1] : j \in DOMAIN items}

\* d[key]
Get(items, key) == items[CHOOSE j \in DOMAIN items : items[j][1] = key][2]

\* d[key] = v: the value of a key already held is replaced in place, a new
\* key is added at the end
SetItem(items, key, v) ==
    IF key \in Keys(items)
    THEN [j \in DOMAIN items |->
            IF items[j][1] = key THEN <<key, v>> ELSE items[j]]
    ELSE Append(items, <<key, v>>)

\* OrderedDict(pairs): the pairs are inserted from left to right
RECURSIVE OrderedDict(_)
OrderedDict(pairs) ==
    IF pairs = <<>> THEN <<>>
    ELSE LET last == pairs[Len(pairs)]
         IN SetItem(OrderedDict(SubSeq(pairs, 1, Len(pairs) - 1)),
                    last[1], last[2])

\* if n_encoder==2: models[1].decoder = models[0].decoder
DecoderOf(n, w) == IF n = 2 THEN 0 ELSE w

Decoders(n) == {DecoderOf(n, w) : w \in 0..(n - 1)}

\* models as constructed at the entry point, all parameters trainable;
\* wave is the wavelength grid of the model's instrument, given by its shape
\* (0: the grid of the instrument in use)
NewModels(n, e0, d0) ==
    [enc |-> [w \in 0..(n - 1) |-> e0],
     dec |-> [d \in Decoders(n) |-> d0],
     wave |-> [w \in 0..(n - 1) |-> 0],
     enc_rg |-> [w \in 0..(n - 1) |-> TRUE],
     dec_rg |-> [d \in Decoders(n) |-> TRUE]]

\* model.state_dict() of models[w]
state_dict(m, n, w) ==
    [j \in DOMAIN KeyOrder |->
        <<KeyOrder[j],
          CASE KeyOrder[j] = KeyEnc -> m.enc[w]
            [] KeyOrder[j] = KeyDec -> m.dec[DecoderOf(n, w)]
            [] OTHER -> m.wave[w]>>]

\* load_state_dict raises RuntimeError when a tensor of the snapshot has
\* another shape than the model's
ShapeMismatch(m, w, snapshot) ==
    \E key \in {KeyWave, KeyMask} \cap Keys(snapshot) :
        Get(snapshot, key) # m.wave[w]

\* Module.load_state_dict(snapshot, strict=False): keys of the model that
\* the snapshot holds are copied, other keys of the snapshot are ignored
load_state_dict(m, n, w, snapshot) ==
    [m EXCEPT
       !.enc[w] = IF KeyEnc \in Keys(snapshot)
                  THEN Get(snapshot, KeyEnc) ELSE @,
       !.dec[DecoderOf(n, w)] =
                  IF KeyDec \in Keys(snapshot)
                  THEN Get(snapshot, KeyDec) ELSE @,
       !.wave[w] = IF KeyWave \in Keys(snapshot)
                   THEN Get(snapshot, KeyWave) ELSE @]

\* str.replace(old, new): the occurrences of old are replaced from left to
\* right, without overlap
RECURSIVE Replace(_, _, _)
Replace(str, old, new) ==
    IF Len(str) < Len(old) THEN str
    ELSE IF SubSeq(str, 1, Len(old)) = old
         THEN new \o Replace(SubSeq(str, Len(old) + 1, Len(str)), old, new)
         ELSE <<str[1]>> \o Replace(Tail(str), old, new)

\* line 210: k.replace('mlp.mlp', 'mlp')
RenameKey(key) ==
    Replace(key, <<"m", "l", "p", ".", "m", "l", "p">>, <<"m", "l", "p">>)

\* lines 208-210: the backwards-compatibility rewrite of snapshot i; of two
\* items renamed to the same key the later one gives the value
RenameSnapshot(snapshot) ==
    IF LegacyKey \in Keys(snapshot)
    THEN OrderedDict([j \in DOMAIN snapshot |->
                        <<RenameKey(snapshot[j][1]), snapshot[j][2]>>])
    ELSE snapshot

(* ---------------------- checkpoint and load_model ---------------------- *)
checkpoint(m, n, hist) ==
    [isfile |-> TRUE,
     model |-> [w \in 0..(n - 1) |-> state_dict(m, n, w)],
     losses |-> hist]

\* faulty variant: every model is loaded from snapshot 0
SnapshotFor_mut(model_struct, i) == model_struct.model[0]

\* which snapshot of the file is loaded into models[i]
SnapshotFor(model_struct, i) == model_struct.model[i]

\* lines 215-216: the buffers of instruments[i], the instrument models[i]
\* was built with, are written into the snapshot
PatchSnapshot(snapshot, m, i) ==
    SetItem(SetItem(snapshot, KeyWave, m.wave[i]), KeyMask, m.wave[i])

\* the integer keys of the mapping checkpoint writes: its keys are the
\* strings 'model' and 'losses' (line 196)
StructIndexKeys == {}

\* line 213 raising: the tensors whose shapes agree were copied before the
\* RuntimeError is raised
PartialLoad(m, n, i, snapshot) ==
    [load_state_dict(m, n, i, snapshot) EXCEPT !.wave[i] = m.wave[i]]

\* lines 206-217.  When the load of line 213 raises, the except branch
\* patches the snapshot and evaluates model_struct[i]['model']; model_struct
\* is the mapping with the keys 'model' and 'losses', so the lookup of i
\* raises KeyError
RECURSIVE LoadLoop(_, _, _, _)
LoadLoop(model_struct, m, n, i) ==
    IF i >= n THEN [raised |-> "", models |-> m]
    ELSE LET snapshot == RenameSnapshot(SnapshotFor(model_struct, i))
         IN IF ShapeMismatch(m, i, snapshot)
            THEN IF i \in StructIndexKeys
                 THEN LoadLoop(model_struct,
                               load_state_dict(m, n, i,
                                   PatchSnapshot(snapshot, m, i)), n, i + 1)
                 ELSE [raised |-> "KeyError",
                       models |-> PartialLoad(m, n, i, snapshot)]
            ELSE LoadLoop(model_struct, load_state_dict(m, n, i, snapshot),
                          n, i + 1)

\* the outcome of load_model: the models and the history, or the exception
load_model(model_struct, m, n) ==
    LET r == LoadLoop(model_struct, m, n, 0)
    IN IF r.raised # "" THEN r
       ELSE [raised |-> "", models |-> r.models,
             losses |-> model_struct.losses]

(* ------------------------ resume logic of __main__ --------------------- *)
\* faulty variant: >= 0 in place of > 0
NonZeroRow_mut(row) == RowSum(row)[1] >= 0

\* non_zero = np.sum(losses[0][0],axis=1)>0
NonZeroRow(row) == RatPos(RowSum(row))

non_zero(hist) == [e \in DOMAIN hist[0][0] |-> NonZeroRow(hist[0][0][e])]

\* the j-th epoch selected by a boolean mask
Selected(mask, j) ==
    CHOOSE e \in DOMAIN mask :
        mask[e] /\ Cardinality({x \in DOMAIN mask : x < e /\ mask[x]}) = j

\* losses[:,:,non_zero,:]
MaskEpochs(hist, mask) ==
    LET cnt == Cardinality({e \in DOMAIN mask : mask[e]})
    IN [p \in DOMAIN hist |-> [w \in DOMAIN hist[p] |->
           [j \in 0..(cnt - 1) |-> hist[p][w][Selected(mask, j)]]]]

ResumeLosses(hist) == MaskEpochs(hist, non_zero(hist))

(* ------------------------------ train ---------------------------------- *)
\* np.arange(0.0, 2.0, annealing_step), in units of annealing_step
Arange(n) == [i \in 0..(n - 1) |-> i]

ANNEAL_SCHEDULE == Arange(AnnealLen)

\* faulty variant: the schedule is not cyclic, its last value is held once
\* the run is past its end
SlopeIndex_mut(ep, e0, sched) ==
    IF ep - e0 < Len0(sched) THEN ep - e0 ELSE Len0(sched) - 1

\* lines 290-291: the slope of epoch epoch_ of a run that started at epoch e0
SlopeIndex(ep, e0, sched) == (ep - e0) % Len0(sched)

\* faulty variant: < in place of <=
InCoolDown_mut(ep, n) == n - ep < CoolDown

InCoolDown(ep, n) == n - ep <= CoolDown

SlopeAt(sched, ep, e0, n) ==
    IF InCoolDown(ep, n) THEN 0 ELSE sched[SlopeIndex(ep, e0, sched)]

\* faulty variant: the final epoch is not checkpointed
CheckpointDue_mut(ep, n) == ep % CheckpointEvery = 0

\* line 376
CheckpointDue(ep, n) == ep % CheckpointEvery = 0 \/ ep = n - 1

\* lines 335 and 363: the test made after batch kk has been processed
BatchBreak(n_batch, kk) == n_batch # None /\ kk = Val(n_batch) - 1

\* len(batch[0]): loaders yield full batches of 2 and a last batch of 1
BatchSize(kk, nb) == IF kk = nb - 1 THEN 1 ELSE 2

\* faulty variant: the pass on the augmented batch is not skipped
LoggedLosses_mut(a, lv, sl, b) ==
    [t \in 0..(n_loss - 1) |->
        CASE t = 0 -> lv * b
          [] t = 1 -> IF a.similarity THEN b - 1 ELSE 0
          [] t = 2 -> IF a.augmentation THEN lv * b ELSE 0
          [] t = 4 -> IF a.consistency /\ a.augmentation THEN sl * b ELSE 0
          [] OTHER -> 0]

\* get_losses, as logged: l.item() if hasattr(l, 'item') else 0
LoggedLosses(a, lv, sl, b) ==
    [t \in 0..(n_loss - 1) |->
        CASE t = 0 -> lv * b
          [] t = 1 -> IF a.similarity THEN b - 1 ELSE 0
          [] t = 4 -> IF a.consistency /\ a.augmentation THEN sl * b ELSE 0
          [] OTHER -> 0]

\* detailed_loss[p][w][e] += tuple(...)
Accumulate(hist, p, w, e, items) ==
    [hist EXCEPT ![p][w][e] =
        [t \in 0..(n_loss - 1) |-> RatAdd(@[t], Rat(items[t]))]]

\* faulty variant: the accumulated row is not divided
Normalize_mut(hist, p, w, e, ns) == hist

\* detailed_loss[p][w][e] /= n_sample
Normalize(hist, p, w, e, ns) ==
    [hist EXCEPT ![p][w][e] =
        [t \in 0..(n_loss - 1) |-> RatDivInt(@[t], ns)]]

\* get_all_parameters: group 0 holds every encoder and the decoder of the
\* model the loop variable was left at
OptimizerDecoder(n) == DecoderOf(n, n - 1)

Bump(v) == (v + 1) % WeightMod

\* backward, optimizer.step, optimizer.zero_grad on a batch of models[w]
OptimizerStep(m, n, w) ==
    LET d == DecoderOf(n, w)
    IN [m EXCEPT
          !.enc[w] = IF m.enc_rg[w] THEN Bump(@) ELSE @,
          !.dec[d] = IF m.dec_rg[d] /\ d = OptimizerDecoder(n)
                     THEN Bump(@) ELSE @]

\* lines 262-277
ResumeEpoch(ls) == IF ls = None THEN 0 ELSE HLen(Val(ls))

ResumeTotal(ls, ne) == ne + ResumeEpoch(ls)

ResumeHistory(ls, n_enc, ne) ==
    LET z == Zeros(n_enc, ResumeTotal(ls, ne))
    IN IF ls = None THEN z
       ELSE [p \in DOMAIN z |-> [w \in DOMAIN z[p] |-> [e \in DOMAIN z[p][w] |->
               IF e < HLen(Val(ls)) THEN Val(ls)[p][w][e] ELSE z[p][w][e]]]]

mode == train_sequence[ladder[epoch_ - epoch]]

(* ----------------------------- __main__ -------------------------------- *)
\* faulty variant: --clobber is ignored
OutfileBlocked_mut(f, a) == f.isfile

\* line 456: os.path.isfile(args.outfile) and not args.clobber
OutfileBlocked(f, a) == f.isfile /\ ~a.clobber

\* lines 455-457: outfile exists and --clobber not given
MainExit ==
    /\ pc = "main"
    /\ OutfileBlocked(outfile, args)
    /\ pc' = "exit"
    /\ UNCHANGED <<inputs, outfile, models, loaded, losses, ladder,
                   detailed_loss, epoch, n_epoch, epoch_, which, k, n_sample,
                   slope, ckpts,
                   lr_steps>>

\* lines 458-464: load the checkpoint and drop the epochs not yet computed
\* (the outfile of a run was written by checkpoint for the instruments in
\* use, load_model returns)
MainLoad ==
    /\ pc = "main"
    /\ ~OutfileBlocked(outfile, args)
    /\ outfile.isfile
    /\ load_model(outfile, models, n_encoder).raised = ""
    /\ LET r == load_model(outfile, models, n_encoder)
       IN /\ models' = r.models
          /\ loaded' = Some(r.losses)
          /\ losses' = Some(ResumeLosses(r.losses))
    /\ pc' = "call"
    /\ UNCHANGED <<inputs, outfile, ladder, detailed_loss, epoch, n_epoch,
                   epoch_, which, k, n_sample, slope, ckpts,
                   lr_steps>>

\* line 458: no outfile, losses = None
MainFresh ==
    /\ pc = "main"
    /\ ~OutfileBlocked(outfile, args)
    /\ ~outfile.isfile
    /\ losses' = None
    /\ pc' = "call"
    /\ UNCHANGED <<inputs, outfile, models, loaded, ladder, detailed_loss,
                   epoch, n_epoch, epoch_, which, k, n_sample, slope, ckpts,
                   lr_steps>>

\* lines 466-467: the keyword arguments of the call of train
MainKeywords ==
    {"n_epoch", "n_batch", "lr", "aug_fcts", "similarity", "consistency",
     "outfile", "losses", "verbose"}

\* lines 227-228: a parameter of train that is not handed keeps its default
Handed(name) == name \in MainKeywords

\* lines 466-467, 240-247: __main__ calls train without train_sequence, the
\* parameter is None and build_ladder(None) raises TypeError
MainTrain ==
    /\ pc = "call"
    /\ ~Handed("train_sequence")
    /\ pc' = "TypeError"
    /\ UNCHANGED <<inputs, outfile, models, loaded, losses, ladder,
                   detailed_loss, epoch, n_epoch, epoch_, which, k, n_sample,
                   slope, ckpts, lr_steps>>

\* lines 240-280: train called with a curriculum, a schedule and n_epoch
TrainSetup ==
    /\ pc = "train"
    /\ build_ladder(train_sequence).raised = ""
    /\ ladder' = build_ladder(train_sequence).ladder
    /\ epoch' = ResumeEpoch(losses)
    /\ n_epoch' = ResumeTotal(losses, requested)
    /\ detailed_loss' = ResumeHistory(losses, n_encoder, requested)
    /\ epoch_' = epoch'
    /\ lr_steps' = 0
    /\ pc' = "epoch"
    /\ UNCHANGED <<inputs, outfile, models, loaded, losses, which, k,
                   n_sample, slope, ckpts>>

\* lines 286-288: requires_grad of the parameters of models[0].decoder
SetDecoderFlag(m, n, stage) ==
    [m EXCEPT !.dec_rg[DecoderOf(n, 0)] = stage.decoder]

\* faulty variant: the flag of the encoder is left as it was
SetEncoderFlag_mut(m, stage, w) == m

\* lines 299-300: requires_grad of the parameters of models[which].encoder
SetEncoderFlag(m, stage, w) ==
    [m EXCEPT !.enc_rg[w] = stage.encoder[w]]

\* faulty variant: every data source counts as active
DataActive_mut(stage, w) == TRUE

\* line 303: mode['data'][which]
DataActive(stage, w) == stage.data[w]

\* lines 282-291: next epoch, stage, decoder flag, slope
EpochBegin ==
    /\ pc = "epoch"
    /\ epoch_ < n_epoch
    /\ epoch_ - epoch \in DOMAIN ladder
    /\ models' = SetDecoderFlag(models, n_encoder, mode)
    /\ slope' = SlopeAt(ANNEAL_SCHEDULE, epoch_, epoch, n_epoch)
    /\ which' = 0
    /\ pc' = "train_enc"
    /\ UNCHANGED <<inputs, outfile, loaded, losses, ladder, detailed_loss,
                   epoch, n_epoch, epoch_, k, n_sample, ckpts,
                   lr_steps>>

\* line 284: the ladder has no entry for this epoch, IndexError
EpochIndexError ==
    /\ pc = "epoch"
    /\ epoch_ < n_epoch
    /\ epoch_ - epoch \notin DOMAIN ladder
    /\ pc' = "IndexError"
    /\ UNCHANGED <<inputs, outfile, models, loaded, losses, ladder,
                   detailed_loss, epoch, n_epoch, epoch_, which, k, n_sample,
                   slope, ckpts, lr_steps>>

\* lines 296-304: encoder flag set, data source inactive
TrainSkip ==
    /\ pc = "train_enc"
    /\ which < n_encoder
    /\ ~DataActive(mode, which)
    /\ models' = SetEncoderFlag(models, mode, which)
    /\ which' = which + 1
    /\ UNCHANGED <<pc, inputs, outfile, loaded, losses, ladder, detailed_loss,
                   epoch, n_epoch, epoch_, k, n_sample, slope, ckpts,
                   lr_steps>>

\* lines 296-309: encoder flag set, training pass starts
TrainStart ==
    /\ pc = "train_enc"
    /\ which < n_encoder
    /\ DataActive(mode, which)
    /\ models' = SetEncoderFlag(models, mode, which)
    /\ n_sample' = 0
    /\ k' = 0
    /\ pc' = "train_batch"
    /\ UNCHANGED <<inputs, outfile, loaded, losses, ladder, detailed_loss,
                   epoch, n_epoch, epoch_, which, slope, ckpts,
                   lr_steps>>

\* lines 310-336: one training batch
TrainBatch ==
    /\ pc = "train_batch"
    /\ LET b == BatchSize(k, loaders)
       IN /\ models' = OptimizerStep(models, n_encoder, which)
          /\ detailed_loss' = Accumulate(detailed_loss, 0, which, epoch_,
                                  LoggedLosses(args, lossval, slope, b))
          /\ n_sample' = n_sample + b
    /\ IF BatchBreak(args.batch_number, k) \/ k + 1 >= loaders
       THEN pc' = "train_norm" /\ k' = k
       ELSE pc' = pc /\ k' = k + 1
    /\ UNCHANGED <<inputs, outfile, loaded, losses, ladder, epoch, n_epoch,
                   epoch_, which, slope, ckpts,
                   lr_steps>>

\* line 337
TrainNormalize ==
    /\ pc = "train_norm"
    /\ detailed_loss' = Normalize(detailed_loss, 0, which, epoch_, n_sample)
    /\ which' = which + 1
    /\ pc' = "train_enc"
    /\ UNCHANGED <<inputs, outfile, models, loaded, losses, ladder, epoch,
                   n_epoch, epoch_, k, n_sample, slope, ckpts,
                   lr_steps>>

\* line 339, then the validation loop starts
SchedulerStep ==
    /\ pc = "train_enc"
    /\ which = n_encoder
    /\ lr_steps < requested
    /\ lr_steps' = lr_steps + 1
    /\ which' = 0
    /\ pc' = "valid_enc"
    /\ UNCHANGED <<inputs, outfile, models, loaded, losses, ladder,
                   detailed_loss, epoch, n_epoch, epoch_, k, n_sample, slope,
                   ckpts>>

\* faulty variant: the validation batch is followed by an optimizer step
NoGradStep_mut(m, n, w) == OptimizerStep(m, n, w)

\* lines 341-364: under torch.no_grad() the batch has no backward pass and
\* the validation loop has no optimizer.step()
NoGradStep(m, n, w) == m

\* lines 342-346
ValidStart ==
    /\ pc = "valid_enc"
    /\ which < n_encoder
    /\ n_sample' = 0
    /\ k' = 0
    /\ pc' = "valid_batch"
    /\ UNCHANGED <<inputs, outfile, models, loaded, losses, ladder,
                   detailed_loss, epoch, n_epoch, epoch_, which, slope, ckpts,
                   lr_steps>>

\* lines 347-364: one validation batch
ValidBatch ==
    /\ pc = "valid_batch"
    /\ LET b == BatchSize(k, loaders)
       IN /\ models' = NoGradStep(models, n_encoder, which)
          /\ detailed_loss' = Accumulate(detailed_loss, 1, which, epoch_,
                                  LoggedLosses(args, lossval, slope, b))
          /\ n_sample' = n_sample + b
    /\ IF BatchBreak(args.batch_number, k) \/ k + 1 >= loaders
       THEN pc' = "valid_norm" /\ k' = k
       ELSE pc' = pc /\ k' = k + 1
    /\ UNCHANGED <<inputs, outfile, loaded, losses, ladder, epoch,
                   n_epoch, epoch_, which, slope, ckpts,
                   lr_steps>>

\* line 366
ValidNormalize ==
    /\ pc = "valid_norm"
    /\ detailed_loss' = Normalize(detailed_loss, 1, which, epoch_, n_sample)
    /\ which' = which + 1
    /\ pc' = "valid_enc"
    /\ UNCHANGED <<inputs, outfile, models, loaded, losses, ladder, epoch,
                   n_epoch, epoch_, k, n_sample, slope, ckpts,
                   lr_steps>>

\* lines 376-378: the epoch ends with a checkpoint
EpochCheckpoint ==
    /\ pc = "valid_enc"
    /\ which = n_encoder
    /\ CheckpointDue(epoch_, n_epoch)
    /\ outfile' = checkpoint(models, n_encoder, detailed_loss)
    /\ ckpts' = ckpts \cup {epoch_}
    /\ epoch_' = epoch_ + 1
    /\ pc' = "epoch"
    /\ UNCHANGED <<inputs, models, loaded, losses, ladder, detailed_loss,
                   epoch, n_epoch, which, k, n_sample, slope,
                   lr_steps>>

\* line 376: the epoch ends without a checkpoint
EpochNoCheckpoint ==
    /\ pc = "valid_enc"
    /\ which = n_encoder
    /\ ~CheckpointDue(epoch_, n_epoch)
    /\ epoch_' = epoch_ + 1
    /\ pc' = "epoch"
    /\ UNCHANGED <<inputs, outfile, models, loaded, losses, ladder,
                   detailed_loss, epoch, n_epoch, which, k, n_sample, slope,
                   ckpts,
                   lr_steps>>

\* line 282: range(epoch, n_epoch) is exhausted, train returns
TrainReturn ==
    /\ pc = "epoch"
    /\ epoch_ >= n_epoch
    /\ pc' = "done"
    /\ UNCHANGED <<inputs, outfile, models, loaded, losses, ladder,
                   detailed_loss, epoch, n_epoch, epoch_, which, k, n_sample,
                   slope, ckpts,
                   lr_steps>>

(* ------------------------------ inputs --------------------------------- *)
List1(a) == [i \in 0..0 |-> a]
List2(a, b) == [i \in 0..1 |-> IF i = 0 THEN a ELSE b]
List3(a, b, c) == [i \in 0..2 |-> IF i = 0 THEN a ELSE IF i = 1 THEN b ELSE c]

Stage(it, data, enc, dec) ==
    [iteration |-> it, data |-> data, encoder |-> enc, decoder |-> dec]

\* curricula of a run: the single FULL stage of the entry point, and staged
\* ones that freeze the decoder or an encoder and switch a data source off
Curricula(n) ==
    CASE n = 1 ->
           {List1(Stage(2 * StageIter, List1(TRUE), List1(TRUE), TRUE)),
            List2(Stage(ShortIter, List1(TRUE), List1(TRUE), FALSE),
                  Stage(ShortIter + 1, List1(TRUE), List1(FALSE), TRUE))}
      [] n = 2 ->
           {List2(Stage(ShortIter, List2(TRUE, FALSE), List2(TRUE, FALSE), TRUE),
                  Stage(ShortIter, List2(TRUE, TRUE), List2(TRUE, TRUE), FALSE))}
      [] OTHER ->
           {List2(Stage(ShortIter, List3(TRUE, FALSE, TRUE),
                        List3(TRUE, TRUE, FALSE), TRUE),
                  Stage(ShortIter, List3(TRUE, TRUE, TRUE),
                        List3(TRUE, TRUE, TRUE), FALSE))}

ArgFlags ==
    {[similarity |-> FALSE, consistency |-> FALSE, augmentation |-> FALSE],
     [similarity |-> TRUE, consistency |-> TRUE, augmentation |-> TRUE],
     [similarity |-> TRUE, consistency |-> TRUE, augmentation |-> FALSE],
     [similarity |-> FALSE, consistency |-> FALSE, augmentation |-> TRUE]}

ArgSets ==
    {[clobber |-> c, batch_number |-> nb, similarity |-> f.similarity,
      consistency |-> f.consistency, augmentation |-> f.augmentation] :
        c \in BOOLEAN, nb \in {None} \cup {Some(x) : x \in 0..MaxCap},
        f \in ArgFlags}

\* a computed history row found in a file
FileRow(p, w, e) ==
    [t \in 0..(n_loss - 1) |-> IF t = 0 THEN Rat(1 + e + w + 2 * p) ELSE Rat(0)]

\* histories of earlier runs: an epoch's training row of an encoder is zero
\* (not computed, inactive data source, or a loss of zero) or computed; its
\* validation rows are computed when some encoder's training row is
FileHistory(n, len, mk) ==
    [p \in 0..1 |-> [w \in 0..(n - 1) |-> [e \in 0..(len - 1) |->
        IF (p = 0 /\ mk[w][e]) \/ (p = 1 /\ \E x \in 0..(n - 1) : mk[x][e])
        THEN FileRow(p, w, e) ELSE ZeroRow]]]

FileHistories(n) ==
    UNION {{FileHistory(n, len, mk) :
               mk \in [0..(n - 1) -> [0..(len - 1) -> BOOLEAN]]} :
           len \in 1..MaxFileEpochs}

\* the weights an earlier run left in the file
FileModels(n) ==
    [NewModels(n, 0, 2 % WeightMod) EXCEPT
        !.enc = [w \in 0..(n - 1) |-> (w + 1) % WeightMod]]

Files(n) == {checkpoint(FileModels(n), n, h) : h \in FileHistories(n)}

Init ==
    /\ pc = "main"
    /\ n_encoder \in EncoderCounts
    /\ train_sequence \in Curricula(n_encoder)
    /\ args \in ArgSets
    /\ loaders \in 1..MaxBatches
    /\ lossval \in 0..MaxLoss
    /\ outfile \in {NoFile} \cup Files(n_encoder)
    /\ models = NewModels(n_encoder, 0, 0)
    /\ loaded = None
    /\ losses = None
    /\ ladder = [j \in {} |-> 0]
    /\ detailed_loss = Zeros(n_encoder, 0)
    /\ epoch = 0
    /\ n_epoch = 0
    /\ epoch_ = 0
    /\ which = 0
    /\ k = 0
    /\ n_sample = 0
    /\ slope = 0
    /\ ckpts = {}
    /\ saved = None
    /\ requested = TotalIter(train_sequence)
    /\ lr_steps = 0

\* the entry point as written
Next ==
    \/ MainExit
    \/ MainLoad
    \/ MainFresh
    \/ MainTrain

Spec == Init /\ [][Next]_vars

(* ------------------------- calls of train ------------------------------ *)
\* the losses argument: histories of 0..MaxFileEpochs computed epochs
TrainHistories(n) ==
    {FileHistory(n, len, [w \in 0..(n - 1) |-> [e \in 0..(len - 1) |-> TRUE]]) :
        len \in 0..MaxFileEpochs}

\* n_epoch arguments: the sum of the iteration counts (line 449), or more
Requests(seq) == TotalIter(seq)..(TotalIter(seq) + MaxExtra)

\* train called with models, loaders, a curriculum, the schedule, n_epoch,
\* and losses = None or the history of an earlier run
InitTrain ==
    /\ pc = "train"
    /\ n_encoder \in EncoderCounts
    /\ train_sequence \in Curricula(n_encoder)
    /\ requested \in Requests(train_sequence)
    /\ args \in {a \in ArgSets : ~a.clobber}
    /\ loaders \in 1..MaxBatches
    /\ lossval \in 0..MaxLoss
    /\ outfile = NoFile
    /\ losses \in {None} \cup {Some(h) : h \in TrainHistories(n_encoder)}
    /\ models = IF losses = None THEN NewModels(n_encoder, 0, 0)
                ELSE FileModels(n_encoder)
    /\ loaded = None
    /\ ladder = [j \in {} |-> 0]
    /\ detailed_loss = Zeros(n_encoder, 0)
    /\ epoch = 0
    /\ n_epoch = 0
    /\ epoch_ = 0
    /\ which = 0
    /\ k = 0
    /\ n_sample = 0
    /\ slope = 0
    /\ ckpts = {}
    /\ saved = None
    /\ lr_steps = 0

NextTrain ==
    \/ TrainSetup
    \/ EpochIndexError
    \/ EpochBegin
    \/ TrainSkip
    \/ TrainStart
    \/ TrainBatch
    \/ TrainNormalize
    \/ SchedulerStep
    \/ ValidStart
    \/ ValidBatch
    \/ ValidNormalize
    \/ EpochCheckpoint
    \/ EpochNoCheckpoint
    \/ TrainReturn

SpecTrain == InitTrain /\ [][NextTrain]_vars

(* ---------------- build_ladder on arbitrary curricula ------------------ *)
\* iteration counts handed to build_ladder, non-positive ones included
IterCounts == (0 - 1)..MaxCount

LadderInputs ==
    UNION {[0..(len - 1) ->
               {Stage(c, List1(TRUE), List1(TRUE), TRUE) : c \in IterCounts}] :
           len \in 1..MaxStages}

InitLadder ==
    /\ pc = "ladder"
    /\ train_sequence \in LadderInputs
    /\ n_encoder = 1
    /\ args = CHOOSE a \in ArgSets : TRUE
    /\ loaders = 1
    /\ lossval = 0
    /\ outfile = NoFile
    /\ models = NewModels(1, 0, 0)
    /\ loaded = None
    /\ losses = None
    /\ ladder = [j \in {} |-> 0]
    /\ detailed_loss = Zeros(1, 0)
    /\ epoch = 0
    /\ n_epoch = 0
    /\ epoch_ = 0
    /\ which = 0
    /\ k = 0
    /\ n_sample = 0
    /\ slope = 0
    /\ ckpts = {}
    /\ saved = None
    /\ requested = 0
    /\ lr_steps = 0

\* build_ladder returns the ladder
BuildLadder ==
    /\ pc = "ladder"
    /\ build_ladder(train_sequence).raised = ""
    /\ ladder' = build_ladder(train_sequence).ladder
    /\ pc' = "ladder_done"
    /\ UNCHANGED <<inputs, outfile, models, loaded, losses, detailed_loss,
                   epoch, n_epoch, epoch_, which, k, n_sample, slope, ckpts,
                   lr_steps>>

\* build_ladder raises
BuildLadderError ==
    /\ pc = "ladder"
    /\ build_ladder(train_sequence).raised # ""
    /\ pc' = "ladder_error"
    /\ UNCHANGED <<inputs, outfile, models, loaded, losses, ladder,
                   detailed_loss, epoch, n_epoch, epoch_, which, k, n_sample,
                   slope, ckpts,
                   lr_steps>>

NextLadder == BuildLadder \/ BuildLadderError

SpecLadder == InitLadder /\ [][NextLadder]_vars

(* ------------------- checkpoint, then load_model ----------------------- *)
\* 'decoder.mlp.mlp.0.weight'
LegacyDecKey ==
    <<"d", "e", "c", "o", "d", "e", "r", ".", "m", "l", "p", ".", "m", "l",
    "p", ".", "0", ".", "w", "e", "i", "g", "h", "t">>

\* a file written before the encoder.mlp.mlp -> encoder.mlp renaming and
\* before the encoder held its instrument
LegacyFile(n, hist) ==
    [isfile |-> TRUE,
     model |-> [w \in 0..(n - 1) |->
                  <<<<LegacyKey, (w + 1) % WeightMod>>,
                    <<LegacyDecKey, 2 % WeightMod>>>>],
     losses |-> hist]

\* a file whose last snapshot holds the buffers of an instrument with
\* another wavelength grid
OtherGridFile(n, hist) ==
    LET f == checkpoint(FileModels(n), n, hist)
    IN [f EXCEPT !.model[n - 1] = SetItem(SetItem(@, KeyWave, 1), KeyMask, 1)]

Weights == 0..(WeightMod - 1)

InitCkpt ==
    /\ pc = "ck_run"
    /\ n_encoder \in EncoderCounts \ {3}
    /\ \E ew \in [0..(n_encoder - 1) -> Weights],
          dw \in [Decoders(n_encoder) -> Weights] :
          models = [NewModels(n_encoder, 0, 0) EXCEPT !.enc = ew, !.dec = dw]
    /\ detailed_loss \in FileHistories(n_encoder)
    /\ outfile \in {NoFile, LegacyFile(n_encoder, Zeros(n_encoder, 1)),
                    OtherGridFile(n_encoder, Zeros(n_encoder, 1))}
    /\ train_sequence = CHOOSE c \in Curricula(n_encoder) : TRUE
    /\ args = CHOOSE a \in ArgSets : TRUE
    /\ loaders = 1
    /\ lossval = 0
    /\ loaded = None
    /\ losses = None
    /\ ladder = [j \in {} |-> 0]
    /\ epoch = 0
    /\ n_epoch = 0
    /\ epoch_ = 0
    /\ which = 0
    /\ k = 0
    /\ n_sample = 0
    /\ slope = 0
    /\ ckpts = {}
    /\ saved = None
    /\ requested = 0
    /\ lr_steps = 0

\* checkpoint(...) writes the models and the history to outfile
CkSave ==
    /\ pc = "ck_run"
    /\ outfile' = checkpoint(models, n_encoder, detailed_loss)
    /\ saved' = Some([models |-> models, losses |-> detailed_loss])
    /\ pc' = "ck_saved"
    /\ UNCHANGED <<args, n_encoder, train_sequence, loaders, lossval, models,
                   loaded, losses, ladder, detailed_loss, epoch, n_epoch,
                   epoch_, which, k, n_sample, slope, ckpts, requested,
                   lr_steps>>

\* a new process constructs its models
CkRestart ==
    /\ pc \in {"ck_run", "ck_saved"}
    /\ models' = NewModels(n_encoder, 0, 0)
    /\ detailed_loss' = Zeros(n_encoder, 0)
    /\ pc' = "ck_new"
    /\ UNCHANGED <<inputs, outfile, loaded, losses, ladder, epoch, n_epoch,
                   epoch_, which, k, n_sample, slope, ckpts,
                   lr_steps>>

\* load_model(outfile, models, instruments) returns
CkLoad ==
    /\ pc = "ck_new"
    /\ outfile.isfile
    /\ LET r == load_model(outfile, models, n_encoder)
       IN /\ r.raised = ""
          /\ models' = r.models
          /\ loaded' = Some(r.losses)
    /\ pc' = "ck_loaded"
    /\ UNCHANGED <<inputs, outfile, losses, ladder, detailed_loss, epoch,
                   n_epoch, epoch_, which, k, n_sample, slope, ckpts,
                   lr_steps>>

\* load_model(outfile, models, instruments) raises
CkLoadError ==
    /\ pc = "ck_new"
    /\ outfile.isfile
    /\ LET r == load_model(outfile, models, n_encoder)
       IN /\ r.raised # ""
          /\ models' = r.models
    /\ pc' = "ck_error"
    /\ UNCHANGED <<inputs, outfile, loaded, losses, ladder, detailed_loss,
                   epoch, n_epoch, epoch_, which, k, n_sample, slope, ckpts,
                   lr_steps>>

NextCkpt == CkSave \/ CkRestart \/ CkLoad \/ CkLoadError

SpecCkpt == InitCkpt /\ [][NextCkpt]_vars

(* ======================= properties: build_ladder ====================== *)
AllPositive(seq) == \A i \in DOMAIN seq : seq[i].iteration > 0

\* first epoch of stage i: the iteration counts of the stages before it
StageStart(seq, i) == SumIter(seq, i - 1)

\* C5: for a non-empty curriculum whose iteration counts are all positive,
\* build_ladder returns an array whose length is the sum of the counts, that
\* is non-decreasing, and in which stage i fills exactly the contiguous run
\* of iteration_count(i) entries that follows the runs of the stages before.
Thm_C5 ==
    AllPositive(train_sequence) =>
        /\ pc # "ladder_error"
        /\ pc = "ladder_done" =>
            /\ Len0(ladder) = TotalIter(train_sequence)
            /\ DOMAIN ladder = 0..(TotalIter(train_sequence) - 1)
            /\ \A a, b \in DOMAIN ladder : a <= b => ladder[a] <= ladder[b]
            /\ \A i \in DOMAIN train_sequence :
                  {j \in DOMAIN ladder : ladder[j] = i} =
                     StageStart(train_sequence, i) ..
                        (StageStart(train_sequence, i)
                            + train_sequence[i].iteration - 1)

Witness_C5 ==
    /\ pc = "ladder_done"
    /\ AllPositive(train_sequence)
    /\ Len0(train_sequence) >= 2
    /\ train_sequence[0].iteration = 2
    /\ train_sequence[1].iteration = 1

\* C8: build_ladder fails, and returns no ladder, whenever some stage has an
\* iteration count that is zero or negative.
CE_C8 ==
    (\E i \in DOMAIN train_sequence : train_sequence[i].iteration <= 0)
        => pc # "ladder_done"

(* ==================== properties: checkpoint round trip ================ *)
\* C7: load_model applied to the file written by checkpoint returns the
\* saved loss history and leaves model i with the value of every weight key
\* of saved snapshot i, in encoder order; the load of a saved file does not
\* raise.
Thm_C7 ==
    /\ pc = "ck_error" => saved = None
    /\ (pc = "ck_loaded" /\ saved # None) =>
        /\ loaded = Some(Val(saved).losses)
        /\ \A i \in 0..(n_encoder - 1) :
              LET snap == state_dict(Val(saved).models, n_encoder, i)
              IN \A key \in Keys(snap) :
                    /\ key \in Keys(state_dict(models, n_encoder, i))
                    /\ Get(state_dict(models, n_encoder, i), key)
                          = Get(snap, key)

Witness_C7 ==
    /\ pc = "ck_loaded"
    /\ saved # None
    /\ n_encoder = 2
    /\ models.enc[0] # models.enc[1]
    /\ models.enc[1] # 0
    /\ models.dec[0] # 0
    /\ HLen(Val(loaded)) = 2

(* ========================= properties: the driver ====================== *)
InEpoch ==
    pc \in {"train_enc", "train_batch", "train_norm",
            "valid_enc", "valid_batch", "valid_norm"}

Started == pc \notin {"main", "call", "train", "exit"}

\* the first kk epochs of a history are non-zero and all later epochs zero
PrefixNonZero(h, kk) ==
    \A p \in DOMAIN h : \A w \in DOMAIN h[p] : \A e \in DOMAIN h[p][w] :
        IF e < kk THEN h[p][w][e] # ZeroRow ELSE h[p][w][e] = ZeroRow

\* C1: when the saved history has its first kk epochs non-zero and the rest
\* zero, loading it and running the driver raises nothing, the resumed run
\* starts its epoch loop at kk, its history has kk + m epochs (m the number
\* of epochs asked for), rows 0..kk-1 stay equal to the saved rows of both
\* phases and every encoder, and only rows kk..kk+m-1 are written.
CE_C1 ==
    \A kk \in 0..(MaxFileEpochs + 1) :
        (loaded # None /\ Started /\ kk <= HLen(Val(loaded))
            /\ PrefixNonZero(Val(loaded), kk)) =>
            /\ pc # "TypeError"
            /\ epoch = kk
            /\ n_epoch = kk + requested
            /\ HLen(detailed_loss) = n_epoch
            /\ epoch_ >= kk /\ epoch_ <= n_epoch
            /\ ckpts \subseteq kk..(n_epoch - 1)
            /\ \A p \in 0..1 : \A w \in 0..(n_encoder - 1) :
                  /\ \A e \in 0..(kk - 1) :
                        detailed_loss[p][w][e] = Val(loaded)[p][w][e]
                  /\ \A e \in (epoch_ + 1)..(n_epoch - 1) :
                        detailed_loss[p][w][e] = ZeroRow

\* last epoch at which any encoder has a non-zero training-phase entry
LastNonZero(h) ==
    LET nz == {e \in DOMAIN h[0][0] :
                  \E w \in DOMAIN h[0] : h[0][w][e] # ZeroRow}
    IN IF nz = {} THEN 0 - 1
       ELSE CHOOSE e \in nz : \A x \in nz : x <= e

\* C2: the resume logic keeps exactly rows 0..L of the loaded history in
\* their epoch positions, L the last epoch at which any encoder has a
\* non-zero training entry, so that the driver zero-pads after row L and
\* resumes the epoch loop at L + 1.
CE_C2 ==
    (loaded # None /\ pc = "call") =>
        LET L == LastNonZero(Val(loaded))
        IN /\ losses # None
           /\ ResumeEpoch(losses) = L + 1
           /\ \A p \in 0..1 : \A w \in 0..(n_encoder - 1) :
                 \A e \in 0..L : Val(losses)[p][w][e] = Val(loaded)[p][w][e]

\* C3 as stated: outside the cool-down window the slope of epoch e is
\* schedule[e mod len(schedule)], e the absolute epoch number.
CE_C3 ==
    (InEpoch /\ n_epoch - epoch_ > CoolDown) =>
        slope = ANNEAL_SCHEDULE[epoch_ % AnnealLen]

\* C3 amended: outside the cool-down window the slope of epoch e is
\* schedule[(e - k) mod len(schedule)], k the epoch at which this run started
\* (0 in a fresh run, the resume epoch in a resumed one).
Thm_C3 ==
    (InEpoch /\ n_epoch - epoch_ > CoolDown) =>
        slope = ANNEAL_SCHEDULE[(epoch_ - epoch) % AnnealLen]

\* a resumed run whose start is no multiple of the schedule's length is past
\* the end of the schedule, outside the cool-down window, and the value it
\* reads after the wrap is neither the schedule's first nor the one the
\* absolute epoch number selects
Witness_C3 ==
    /\ pc = "train_batch"
    /\ losses # None
    /\ epoch % AnnealLen # 0
    /\ epoch_ - epoch >= AnnealLen
    /\ n_epoch - epoch_ > CoolDown
    /\ slope # 0
    /\ slope # ANNEAL_SCHEDULE[epoch_ % AnnealLen]

\* C4: in every epoch e with total_epochs - e <= 10 the slope of the training
\* and of the validation pass is 0, whatever the schedule holds there; in no
\* other epoch is the cyclic value replaced; total_epochs is k + m on a
\* resumed run.  With total_epochs = 800 and the schedule of the entry point
\* the slope of epoch 790 is 0 and that of epoch 780 is schedule[0].
Thm_C4 ==
    /\ InEpoch =>
          /\ n_epoch = epoch + requested
          /\ n_epoch - epoch_ <= 10 => slope = 0
          /\ n_epoch - epoch_ > 10 =>
                slope = ANNEAL_SCHEDULE[(epoch_ - epoch) % AnnealLen]
    /\ SlopeAt(Arange(20), 790, 0, 800) = 0
    /\ SlopeAt(Arange(20), 780, 0, 800) = Arange(20)[0]
    /\ SlopeAt(Arange(20), 789, 0, 800) = Arange(20)[9]

Witness_C4 ==
    /\ pc = "valid_batch"
    /\ losses # None
    /\ n_epoch - epoch_ = 10
    /\ ANNEAL_SCHEDULE[(epoch_ - epoch) % AnnealLen] # 0
    /\ slope = 0

\* C6: at the end of epoch e checkpoint is called exactly when e mod 5 = 0 or
\* e is the final epoch, in fresh and in resumed runs, and the file then
\* holds the history with the rows of epoch e normalized (the per-sample
\* mean of the fidelity term is the per-sample loss).
Thm_C6 ==
    Started =>
        /\ ckpts \subseteq epoch..(epoch_ - 1)
        /\ \A e \in epoch..(epoch_ - 1) :
              e \in ckpts <=> (e % 5 = 0 \/ e = n_epoch - 1)
        /\ (pc = "epoch" /\ epoch_ - 1 \in ckpts) =>
              /\ outfile.isfile
              /\ outfile.losses = detailed_loss
              /\ \A w \in 0..(n_encoder - 1) :
                    LET e == epoch_ - 1
                        stage == train_sequence[ladder[e - epoch]]
                    IN /\ outfile.losses[1][w][e][0] = Rat(lossval)
                       /\ stage.data[w] =>
                             outfile.losses[0][w][e][0] = Rat(lossval)

Witness_C6 ==
    /\ pc = "done"
    /\ losses # None
    /\ (n_epoch - 1) % 5 # 0
    /\ n_epoch - 1 \in ckpts
    /\ Cardinality(ckpts) >= 3
    /\ lossval = 1
    /\ n_sample = 3

\* C9: when the outfile exists and --clobber was not given, the process
\* terminates at once: nothing is loaded, no epoch runs, the file is not
\* written, and nothing happens afterwards; when the outfile exists and
\* --clobber is given, the checkpoint is loaded into the models and the
\* epoch loop resumes after the loaded epochs.
GuardStep ==
    /\ (pc = "main" /\ outfile.isfile /\ ~args.clobber) =>
          /\ pc' = "exit"
          /\ outfile' = outfile
          /\ models' = models
          /\ loaded' = None
          /\ ckpts' = {}
    /\ pc # "exit"
    /\ (pc = "main" /\ outfile.isfile /\ args.clobber) =>
          /\ pc' = "call"
          /\ loaded' = Some(outfile.losses)
          /\ losses' # None
          /\ \A i \in 0..(n_encoder - 1) :
                state_dict(models', n_encoder, i) = outfile.model[i]
    /\ (pc = "call" /\ losses # None) =>
          /\ pc' = "epoch"
          /\ epoch_' = HLen(Val(losses))
          /\ epoch_' < n_epoch'

CE_C9 == [][GuardStep]_vars

\* C10: with a batch cap n_batch >= 0 at most n_batch batches are processed
\* per encoder in each training and each validation pass; without a cap
\* every batch of the loader is processed.
CE_C10 ==
    pc \in {"train_norm", "valid_norm"} =>
        IF args.batch_number # None
        THEN k + 1 <= Val(args.batch_number)
        ELSE k + 1 = loaders

(* ===================== properties: calls of train ====================== *)
\* the stage whose run of epochs holds the epoch rel of this run
StageOf(seq, rel) ==
    CHOOSE i \in DOMAIN seq :
        /\ StageStart(seq, i) <= rel
        /\ rel < StageStart(seq, i) + seq[i].iteration

\* C11: for any call of train with a curriculum and an epoch count, the
\* number of epochs executed is the sum of the iteration counts, every
\* lookup ladder[epoch_ - epoch] is within the ladder, and the epochs of
\* this run are governed by the stages in curriculum order, stage i by
\* exactly iteration_count(i) of them, from stage 0 at the resume epoch.
CE_C11 ==
    /\ pc # "IndexError"
    /\ InEpoch =>
          /\ epoch_ - epoch \in DOMAIN ladder
          /\ ladder[epoch_ - epoch] = StageOf(train_sequence, epoch_ - epoch)
    /\ pc = "done" => epoch_ - epoch = TotalIter(train_sequence)

\* C12: a run of the entry point that passes the clobber guard hands train
\* the curriculum and the annealing schedule of lines 427-432, raises no
\* error, and ends with the epoch loop exhausted at epoch_ = n_epoch, every
\* epoch from the start epoch on executed once.
CE_C12 ==
    ~OutfileBlocked(outfile, args) =>
        /\ pc = "call" =>
              /\ Handed("train_sequence")
              /\ Handed("ANNEAL_SCHEDULE")
        /\ pc # "TypeError"
        /\ pc = "done" =>
              /\ epoch_ = n_epoch
              /\ n_epoch = epoch + requested

\* C13 as stated: while a training batch of epoch e is processed, the
\* requires_grad flag of every encoder i is stage(e).encoder[i] and the flag
\* of the decoder is stage(e).decoder.
CE_C13 ==
    pc = "train_batch" =>
        /\ \A i \in 0..(n_encoder - 1) : models.enc_rg[i] = mode.encoder[i]
        /\ models.dec_rg[DecoderOf(n_encoder, 0)] = mode.decoder

\* C13 amended: while a training batch of encoder which is processed in
\* epoch e, the flag of encoder which and of every encoder before it is
\* stage(e).encoder[i], and the flag of the decoder of models[0] is
\* stage(e).decoder; an encoder after which may still carry the flag it had
\* in the epoch before (all flags start TRUE).
Thm_C13 ==
    /\ pc = "train_batch" =>
          /\ \A i \in 0..which : models.enc_rg[i] = mode.encoder[i]
          /\ models.dec_rg[DecoderOf(n_encoder, 0)] = mode.decoder
    /\ (pc = "train_batch" /\ epoch_ > epoch) =>
          \A i \in (which + 1)..(n_encoder - 1) :
              models.enc_rg[i] =
                 train_sequence[ladder[epoch_ - 1 - epoch]].encoder[i]

Witness_C13 ==
    /\ pc = "train_batch"
    /\ n_encoder = 2
    /\ which = 0
    /\ epoch_ - epoch = ShortIter
    /\ models.enc_rg[1] # mode.encoder[1]
    /\ ~models.enc_rg[1]
    /\ ~mode.decoder

\* C14: for any number of encoders, in an epoch whose stage has decoder =
\* FALSE every training batch (backward, optimizer.step) leaves the decoder
\* parameters held in optimizer group 0 as they were before the batch.
FrozenDecoderStep ==
    (pc = "train_batch" /\ ~mode.decoder) =>
        models'.dec[OptimizerDecoder(n_encoder)] =
            models.dec[OptimizerDecoder(n_encoder)]

CE_C14 == [][FrozenDecoderStep]_vars

(* ===================== properties: load fallback ======================= *)
\* the first snapshot of the file whose permissive load raises
FirstMismatch(f, m, n) ==
    CHOOSE i \in 0..(n - 1) :
        /\ ShapeMismatch(m, i, RenameSnapshot(f.model[i]))
        /\ \A j \in 0..(i - 1) : ~ShapeMismatch(m, j, RenameSnapshot(f.model[j]))

\* C15: when the first load of snapshot i raises, load_model retries with
\* snapshot i patched with the buffers of instrument i; load_model raises
\* only if that retry raises, and otherwise the models hold the weights of
\* the file.
CE_C15 ==
    /\ pc = "ck_error" =>
          LET i == FirstMismatch(outfile, NewModels(n_encoder, 0, 0), n_encoder)
          IN ShapeMismatch(NewModels(n_encoder, 0, 0), i,
                 PatchSnapshot(RenameSnapshot(outfile.model[i]),
                               NewModels(n_encoder, 0, 0), i))
    /\ pc = "ck_loaded" =>
          \A i \in 0..(n_encoder - 1) :
              LET snap == RenameSnapshot(outfile.model[i])
              IN /\ KeyEnc \in Keys(snap) =>
                       models.enc[i] = Get(snap, KeyEnc)
                 /\ models.wave[i] = 0

(* ==================== properties: the passes of an epoch =============== *)
InTraining == pc \in {"train_enc", "train_batch", "train_norm"}

InValidation == pc \in {"valid_enc", "valid_batch", "valid_norm"}

\* the stage of epoch e of this run
StageAt(e) == train_sequence[ladder[e - epoch]]

\* C16: in an epoch whose stage has data[i] = FALSE no training pass runs on
\* encoder i (no batch, no optimizer step: its weights stay as they are) and
\* its training row of that epoch stays all zero, also after the epoch; the
\* encoder loop of the training phase goes through the encoders in
\* increasing order.
InactiveStep ==
    /\ pc \in {"train_batch", "train_norm"} => mode.data[which]
    /\ InEpoch =>
          \A i \in 0..(n_encoder - 1) :
              ~mode.data[i] =>
                  /\ detailed_loss[0][i][epoch_] = ZeroRow
                  /\ detailed_loss'[0][i][epoch_] = ZeroRow
                  /\ models'.enc[i] = models.enc[i]
    /\ Started =>
          \A e \in epoch..(epoch_ - 1) : \A i \in 0..(n_encoder - 1) :
              ~StageAt(e).data[i] => detailed_loss[0][i][e] = ZeroRow
    /\ (InTraining /\ pc' \in {"train_enc", "train_batch", "train_norm"}) =>
          /\ which' >= which
          /\ which' <= which + 1

Thm_C16 == [][InactiveStep]_vars

Witness_C16 ==
    /\ pc = "valid_enc"
    /\ n_encoder = 3
    /\ lossval = 1
    /\ ~mode.data[1]
    /\ detailed_loss[0][0][epoch_] # ZeroRow
    /\ detailed_loss[0][1][epoch_] = ZeroRow
    /\ detailed_loss[0][2][epoch_] # ZeroRow
    /\ models.enc[0] # models.enc[1]

\* C17: in every executed epoch scheduler.step() is called once, after the
\* training passes of all encoders and before validation; the validation
\* loop then takes every encoder in turn, data-inactive ones included,
\* skipping none, and writes its validation row of the epoch; no validation
\* step changes a weight or a training row.
ValidationStep ==
    /\ (InTraining \/ pc = "epoch") => lr_steps = epoch_ - epoch
    /\ InValidation => lr_steps = epoch_ - epoch + 1
    /\ (pc = "train_enc" /\ which = n_encoder) =>
          /\ pc' = "valid_enc"
          /\ which' = 0
    /\ (pc = "valid_enc" /\ which < n_encoder) =>
          /\ pc' = "valid_batch"
          /\ which' = which
    /\ pc = "valid_norm" =>
          /\ pc' = "valid_enc"
          /\ which' = which + 1
    /\ InValidation =>
          /\ models' = models
          /\ detailed_loss'[0] = detailed_loss[0]
    /\ Started =>
          \A e \in epoch..(epoch_ - 1) : \A i \in 0..(n_encoder - 1) :
              detailed_loss[1][i][e][0] = Rat(lossval)

Thm_C17 == [][ValidationStep]_vars

Witness_C17 ==
    /\ pc = "epoch"
    /\ epoch_ > epoch
    /\ n_encoder = 2
    /\ lossval = 1
    /\ ~StageAt(epoch_ - 1).data[1]
    /\ detailed_loss[0][1][epoch_ - 1] = ZeroRow
    /\ detailed_loss[1][1][epoch_ - 1][0] = Rat(1)
    /\ lr_steps = epoch_ - epoch

(* ======================= properties: logged losses ===================== *)
\* batches 0..kk of a pass: the sum of the values get_losses returns for
\* term t, the same sum with each value multiplied by its batch's sample
\* count, and the number of samples
RECURSIVE SumItems(_, _)
SumItems(kk, t) ==
    IF kk < 0 THEN 0
    ELSE SumItems(kk - 1, t)
            + LoggedLosses(args, lossval, slope, BatchSize(kk, loaders))[t]

RECURSIVE WeightedItems(_, _)
WeightedItems(kk, t) ==
    IF kk < 0 THEN 0
    ELSE WeightedItems(kk - 1, t)
            + BatchSize(kk, loaders)
                * LoggedLosses(args, lossval, slope, BatchSize(kk, loaders))[t]

RECURSIVE SumSizes(_)
SumSizes(kk) ==
    IF kk < 0 THEN 0 ELSE SumSizes(kk - 1) + BatchSize(kk, loaders)

\* a pass of encoder which - 1 has just been normalized
TrainLogged ==
    /\ pc = "train_enc"
    /\ which > 0
    /\ mode.data[which - 1]

ValidLogged == pc = "valid_enc" /\ which > 0

\* C18 as stated: the value written for a term is
\* (sum_b n_b * l_b) / (sum_b n_b), l_b the value of the term on batch b
\* and n_b its sample count.
CE_C18 ==
    \A p \in 0..1 :
        ((p = 0 /\ TrainLogged) \/ (p = 1 /\ ValidLogged)) =>
            \A t \in 0..(n_loss - 1) :
                detailed_loss[p][which - 1][epoch_][t] =
                    RatDivInt(Rat(WeightedItems(k, t)), SumSizes(k))

\* C18 amended: the value written for a term is (sum_b l_b) / (sum_b n_b):
\* the values get_losses returns are added as they are and the sum is
\* divided once by the number of samples of the pass.
Thm_C18 ==
    \A p \in 0..1 :
        ((p = 0 /\ TrainLogged) \/ (p = 1 /\ ValidLogged)) =>
            /\ n_sample = SumSizes(k)
            /\ \A t \in 0..(n_loss - 1) :
                  detailed_loss[p][which - 1][epoch_][t] =
                      RatDivInt(Rat(SumItems(k, t)), SumSizes(k))

Witness_C18 ==
    /\ TrainLogged
    /\ k = 1
    /\ n_sample = 3
    /\ lossval = 1
    /\ args.similarity
    /\ detailed_loss[0][which - 1][epoch_][0] = Rat(1)
    /\ detailed_loss[0][which - 1][epoch_][1] = RatDivInt(Rat(1), 3)

\* C19: in every history the entries of the augmented fidelity term (2) and
\* of the augmented similarity term (3) are 0 for every phase, encoder and
\* epoch, with or without an augmentation function; the consistency entry
\* (4) is 0 when the consistency flag is off, when there is no augmentation
\* function, and in every epoch whose slope is 0; elsewhere the terms are
\* logged as computed.
Thm_C19 ==
    Started =>
        \A p \in 0..1 : \A w \in 0..(n_encoder - 1) :
            \A e \in DOMAIN detailed_loss[p][w] :
                /\ detailed_loss[p][w][e][2] = Rat(0)
                /\ detailed_loss[p][w][e][3] = Rat(0)
                /\ (~args.consistency \/ ~args.augmentation) =>
                      detailed_loss[p][w][e][4] = Rat(0)
                /\ (e >= epoch
                      /\ SlopeAt(ANNEAL_SCHEDULE, e, epoch, n_epoch) = 0) =>
                      detailed_loss[p][w][e][4] = Rat(0)

Witness_C19 ==
    /\ pc = "done"
    /\ args.consistency
    /\ args.augmentation
    /\ lossval = 1
    /\ detailed_loss[0][0][epoch + 1][4] # Rat(0)
    /\ detailed_loss[1][0][epoch + 1][2] = Rat(0)
    /\ detailed_loss[0][0][n_epoch - 1][4] = Rat(0)
    /\ detailed_loss[0][0][n_epoch - 1][0] # Rat(0)

(* ======================= properties: unsaved work ====================== *)
\* the last epoch of this run at whose end checkpoint was called
LastSaved ==
    IF ckpts = {} THEN epoch - 1
    ELSE CHOOSE e \in ckpts : \A x \in ckpts : x <= e

\* epochs completed in this run since the last checkpoint
Unsaved == (epoch_ - 1) - LastSaved

\* C20: in a fresh or resumed run, at the end of every epoch at most 4
\* epochs completed in this run are not in the checkpoint file, and none
\* when the epoch loop has terminated: the file then holds the history with
\* the rows of every executed epoch; a file written earlier holds the
\* history as it was at the end of the last saved epoch.
Thm_C20 ==
    /\ pc \in {"epoch", "done", "IndexError"} =>
          /\ Unsaved >= 0
          /\ Unsaved <= CheckpointEvery - 1
          /\ Unsaved = 0 => (ckpts # {} => outfile.losses = detailed_loss)
    /\ pc = "done" =>
          /\ Unsaved = 0
          /\ outfile.isfile
          /\ outfile.losses = detailed_loss
          /\ HLen(outfile.losses) = n_epoch
          /\ \A e \in epoch..(n_epoch - 1) : \A i \in 0..(n_encoder - 1) :
                outfile.losses[1][i][e][0] = Rat(lossval)

Witness_C20 ==
    /\ pc = "epoch"
    /\ losses # None
    /\ epoch = 1
    /\ Unsaved = CheckpointEvery - 1
    /\ ckpts = {}
    /\ ~outfile.isfile

====
